---- MODULE Spec2Model ----
(***************************************************************************)
(* Authentication and credential lifecycle of Smart-Note-App:              *)
(* register / login / authenticate / logout / forgetPassword /             *)
(* resetPassword over the User and Token collections, with the handlers'   *)
(* await points as interleaving points.                                    *)
(*                                                                         *)
(* Time is counted in minutes.  ObjectIds and UUIDs are numbered in the    *)
(* order they are generated; their string forms are tagged pairs.          *)
(* Query filters follow MongoDB matching: a filter on a field a document   *)
(* does not have matches nothing.                                          *)
(***************************************************************************)
EXTENDS Integers, Sequences, FiniteSets, TLC

\* ------------------------------------------------------------------ bounds
MaxTokens == 2
MaxLogins == 1
MaxMinute == 15
MaxDays == 1
MaxNotes == 2

Emails == {"a@x.com", "b@x.com"}
Passwords == {"Secret1", "Secret2"}
ShortPasswords == {"abc"}
Otps == {"123456", "654321"}
GeneratedOtps == {"123456"}
Salts == {1}
ClockStep == 5
Slots == {1, 2}
Titles == {"t1", "t2"}
Contents == {"c1"}

\* --------------------------------------------------------- program constants
OTP_VALIDITY == 10
JWT_EXPIRES_IN == 1440
BCRYPT_ROUNDS == 12
MIN_PASSWORD == 6
MINUTES_PER_DAY == 24 * 60

VARIABLES users, tokens, now, transporter, issued, nextUid, nextTid, nextJti,
          req, last, logouts, consumed, notes, nextNid

vars == <<users, tokens, now, transporter, issued, nextUid, nextTid, nextJti,
          req, last, logouts, consumed, notes, nextNid>>

\* ------------------------------------------------------------ conversions
\* ObjectId.prototype.toString(): the hex string of an id
OidToString(id) == <<"oid", id>>

\* Mongoose casts the string given to findById back to an ObjectId
IsOidString(s) == s[1] = "oid"
CastObjectId(s) == s[2]

\* crypto.randomUUID()
RandomUUID(n) == <<"uuid", n>>

\* bcrypt.hash(password, 12): a salted one-way hash
BcryptHash(pw, salt) == [rounds |-> BCRYPT_ROUNDS, salt |-> salt, digest |-> <<salt, pw>>]

\* (a variant that compares the password with the stored value itself)
BcryptCompareRaw(pw, hash) == hash.digest = pw

\* bcrypt.compare(password, hash): re-hash with the stored salt and compare
BcryptCompare(pw, hash) == hash.digest = <<hash.salt, pw>>

NoHash == [rounds |-> 0, salt |-> 0, digest |-> <<0, "">>]
NoUser == [id |-> 0, email |-> "", password |-> NoHash, isVerified |-> FALSE]

\* http-errors createError(status, message); detail carries a number
\* interpolated into the message
Err(status, message) == [status |-> status, message |-> message, detail |-> 0]
Ok(status, message) == [status |-> status, message |-> message, detail |-> 0]
Pending == [status |-> 0, message |-> "", detail |-> 0]

\* ------------------------------------------------------------- User model
\* (a variant that ignores the id)
UserFindByIdAny(id) ==
    IF users # {} THEN CHOOSE u \in users : TRUE ELSE NoUser

\* (a variant whose filter also asks for a verified user)
UserFindOneVerified(email) ==
    IF \E u \in users : u.email = email /\ u.isVerified
    THEN CHOOSE u \in users : u.email = email /\ u.isVerified
    ELSE NoUser

\* User.findOne({ email })
UserFindOne(email) ==
    IF \E u \in users : u.email = email
    THEN CHOOSE u \in users : u.email = email
    ELSE NoUser

\* User.findById(id)
UserFindById(id) ==
    IF \E u \in users : u.id = id
    THEN CHOOSE u \in users : u.id = id
    ELSE NoUser

\* (a variant that stores the updated user as a new document)
UserReplaceWithNewId(id, hash) ==
    {IF u.id = id THEN [u EXCEPT !.password = hash, !.id = nextUid] ELSE u : u \in users}

\* (a variant whose filter matches every user)
UserFindByIdAndUpdateAll(id, hash) == {[u EXCEPT !.password = hash] : u \in users}

\* User.findByIdAndUpdate(id, { password: hash }): the collection afterwards
UserFindByIdAndUpdate(id, hash) ==
    {IF u.id = id THEN [u EXCEPT !.password = hash] ELSE u : u \in users}

\* (a variant without the index)
UserEmailNotUnique == FALSE

\* the unique index on User.email
UserEmailUnique == TRUE

\* ------------------------------------------------------------- jwt.config
jwtConfig == [privateKey |-> "keys/private.pem", publicKey |-> "keys/public.pem",
              algorithm |-> "RS256", expiresIn |-> JWT_EXPIRES_IN,
              issuer |-> "smart-note-app", audience |-> "smart-note-app-users"]

\* (a variant with jwtid and subject exchanged)
getSignOptionsSwapped(jti, subject) ==
    [algorithm |-> jwtConfig.algorithm, expiresIn |-> jwtConfig.expiresIn,
     issuer |-> jwtConfig.issuer, jwtid |-> subject, subject |-> jti,
     audience |-> jwtConfig.audience]

getSignOptions(jti, subject) ==
    [algorithm |-> jwtConfig.algorithm, expiresIn |-> jwtConfig.expiresIn,
     issuer |-> jwtConfig.issuer, jwtid |-> jti, subject |-> subject,
     audience |-> jwtConfig.audience]

getVerifyOptions ==
    [algorithms |-> {jwtConfig.algorithm}, issuer |-> jwtConfig.issuer,
     audience |-> jwtConfig.audience, complete |-> TRUE]

\* the public key that verifies signatures made with a private key
PublicKeyOf(privateKey) ==
    IF privateKey = "keys/private.pem" THEN "keys/public.pem" ELSE "other.pub"

\* jwt.sign(claims, key, options) at time t
JwtSign(claims, key, options, t) ==
    LET payload == [payload |-> claims.payload, iat |-> t, exp |-> t + options.expiresIn,
                    aud |-> options.audience, iss |-> options.issuer,
                    sub |-> options.subject, jti |-> options.jwtid]
    IN [header |-> [alg |-> options.algorithm], payload |-> payload,
        signature |-> [key |-> key, over |-> payload]]

\* (a variant that decodes without checking the signature)
JwtVerifyUnsigned(token, key, options, t) ==
    IF t >= token.payload.exp
    THEN [ok |-> FALSE, name |-> "TokenExpiredError", payload |-> token.payload]
    ELSE IF token.payload.aud # options.audience \/ token.payload.iss # options.issuer
    THEN [ok |-> FALSE, name |-> "JsonWebTokenError", payload |-> token.payload]
    ELSE [ok |-> TRUE, name |-> "", payload |-> token.payload]

\* jwt.verify(token, key, options) at time t: with complete: true the result
\* is { header, payload, signature }
JwtVerify(token, key, options, t) ==
    IF token.header.alg \notin options.algorithms
    THEN [ok |-> FALSE, name |-> "JsonWebTokenError", payload |-> token.payload]
    ELSE IF PublicKeyOf(token.signature.key) # key \/ token.signature.over # token.payload
    THEN [ok |-> FALSE, name |-> "JsonWebTokenError", payload |-> token.payload]
    ELSE IF t >= token.payload.exp
    THEN [ok |-> FALSE, name |-> "TokenExpiredError", payload |-> token.payload]
    ELSE IF token.payload.aud # options.audience \/ token.payload.iss # options.issuer
    THEN [ok |-> FALSE, name |-> "JsonWebTokenError", payload |-> token.payload]
    ELSE [ok |-> TRUE, name |-> "", payload |-> token.payload]

\* the empty string after the "Bearer " prefix
NoPayload == [payload |-> [sub |-> <<"", 0>>, email |-> ""], iat |-> 0, exp |-> 0,
              aud |-> "", iss |-> "", sub |-> <<"", 0>>, jti |-> <<"", 0>>]
NoCred == [header |-> [alg |-> ""], payload |-> NoPayload,
           signature |-> [key |-> "", over |-> NoPayload]]

\* ------------------------------------------------------------ Token model
\* (a variant that filters on another type)
UnexpiredResetTokensWrongType(userId, t) ==
    {k \in tokens : k.userId = userId /\ k.type = "verification" /\ k.expiresAt > t}

\* (a variant without the expiry filter)
ResetTokensOfUser(userId, t) ==
    {k \in tokens : k.userId = userId /\ k.type = "reset"}

\* Token.findOne({ userId, type: 'reset', expiresAt: { $gt: now } })
UnexpiredResetTokens(userId, t) ==
    {k \in tokens : k.userId = userId /\ k.type = "reset" /\ k.expiresAt > t}

\* (a variant without the owner filter)
MatchingResetTokensAnyUser(userId, otp, t) ==
    {k \in tokens : k.token = otp /\ k.type = "reset" /\ k.expiresAt > t}

\* (a variant without the expiry filter)
MatchingResetTokensNoExpiry(userId, otp, t) ==
    {k \in tokens : k.userId = userId /\ k.token = otp /\ k.type = "reset"}

\* Token.findOne({ userId, token: otp, type: 'reset', expiresAt: { $gt: now } })
MatchingResetTokens(userId, otp, t) ==
    {k \in tokens : k.userId = userId /\ k.token = otp /\ k.type = "reset" /\ k.expiresAt > t}

\* Token.findOne({ jti, isRevoked: true }): documents of the Token schema have
\* neither field, so only a document carrying both can match
RevokedTokens(jti) ==
    {k \in tokens : /\ "jti" \in DOMAIN k
                    /\ "isRevoked" \in DOMAIN k
                    /\ k.jti = jti
                    /\ k.isRevoked = TRUE}

\* (a variant that matches the id against userId)
TokenDeleteByUserId(id) == {k \in tokens : k.userId # id}

\* Token.findByIdAndDelete(id)
TokenDeleteById(id) == {k \in tokens : k.id # id}

\* the expireAfterSeconds: 0 index on expiresAt: documents the TTL monitor may remove
Expired(t) == {k \in tokens : k.expiresAt <= t}

\* ------------------------------------------------------------ request state
\* a handler in flight: its position, its arguments and its local variables
\* (replay: the call began after a reset with its OTP had succeeded, and no
\* token with that code has been issued since)
NoReq == [op |-> "none", pc |-> "idle", email |-> "", password |-> "", otp |-> "",
          user |-> NoUser, tokenId |-> 0, replay |-> FALSE]

NoHeader == [scheme |-> "", token |-> NoCred]

\* mailOptions of sendOTPEmail: the recipient and the code in the text
NoMail == [to |-> "", otp |-> ""]
sendOTPEmail(email, otp) == [to |-> email, otp |-> otp]

\* what the latest step answered, if it ended a handler: the handler's
\* arguments, what it answered or passed to next, and what it attached to the
\* request or returned, and the mail it had handed to the transporter.
\* NoLast after a step that ends no handler.
\* (calls: how many times the handler answered or called next.
\* noteId and note: the :id of a notes route and the note in the answer)
NoNote == [id |-> 0, title |-> "", content |-> "", ownerId |-> 0]
NoLast == [op |-> "none", email |-> "", password |-> "", otp |-> "", userId |-> 0,
           tokenId |-> 0, header |-> NoHeader, outcome |-> Pending, user |-> NoUser,
           token |-> NoCred, mail |-> NoMail, noteId |-> 0, note |-> NoNote, calls |-> 0]

\* requests are interchangeable: a new one takes the lowest idle slot
Free(h) == req[h].pc = "idle" /\ \A g \in Slots : g < h => req[g].pc # "idle"

Report(r, outcome) ==
    [NoLast EXCEPT !.op = r.op, !.email = r.email, !.password = r.password, !.otp = r.otp,
                   !.userId = r.user.id, !.tokenId = r.tokenId, !.outcome = outcome,
                   !.calls = 1]

\* the handler of slot h answers (res.json or next(error)) and ends
Done(h, outcome) ==
    /\ req' = [req EXCEPT ![h] = NoReq]
    /\ last' = Report(req[h], outcome)

\* the handler of slot h goes on to its next await
Goto(h, r) ==
    /\ req' = [req EXCEPT ![h] = r]
    /\ last' = NoLast

\* a handler that starts in slot h as r and either ends at once or goes on
Begin(h, r, ends, outcome) ==
    IF ends
    THEN /\ last' = Report(r, outcome)
         /\ UNCHANGED req
    ELSE Goto(h, r)

Init ==
    /\ users = {}
    /\ tokens = {}
    /\ now = 0
    /\ transporter \in {"smtp", "null"}
    /\ issued = {}
    /\ nextUid = 1
    /\ nextTid = 1
    /\ nextJti = 1
    /\ req = [h \in Slots |-> NoReq]
    /\ last = NoLast
    /\ logouts = [j \in 1..MaxLogins |-> 0]
    /\ consumed = {}
    /\ notes = {}
    /\ nextNid = 1

\* --------------------------------------------------------------- register
\* the response projection of a user: the password hash is never returned
PublicUser(u) == [u EXCEPT !.password = NoHash]

AlreadyExists == Err(400, "User with this email already exists")

\* what the global error handler answers for the store's duplicate-key error:
\* 409 when the error is named MongoError, else the error's own message
\* with 500 (the name depends on the driver in use)
DuplicateKeyErrors ==
    {Err(409, "Resource already exists"), Err(500, "E11000 duplicate key error")}

\* User.findOne({ email }) and the existence check
RegisterStart(h, email, password) ==
    /\ Free(h)
    /\ LET existingUser == UserFindOne(email)
           r == [NoReq EXCEPT !.op = "register", !.pc = "save", !.email = email,
                              !.password = password]
       IN Begin(h, r, existingUser # NoUser, AlreadyExists)
    /\ UNCHANGED <<users, tokens, now, transporter, notes, nextNid, issued, nextUid, nextTid, nextJti,
                   logouts, consumed>>

\* bcrypt.hash, new User, user.save() and the 201 response
RegisterSave(h) ==
    /\ req[h].op = "register" /\ req[h].pc = "save"
    /\ \E salt \in Salts :
         LET user == [id |-> nextUid, email |-> req[h].email,
                      password |-> BcryptHash(req[h].password, salt), isVerified |-> FALSE]
         IN IF UserEmailUnique /\ UserFindOne(req[h].email) # NoUser
            THEN /\ \E error \in DuplicateKeyErrors : Done(h, error)
                 /\ UNCHANGED <<users, nextUid>>
            ELSE /\ users' = users \cup {user}
                 /\ nextUid' = nextUid + 1
                 /\ Done(h, Ok(201, "User registered successfully"))
    /\ UNCHANGED <<tokens, now, transporter, notes, nextNid, issued, nextTid, nextJti,
                   logouts, consumed>>

\* ------------------------------------------------------------------ login
\* (a variant that tells an unknown email apart)
UnknownEmail404 == Err(404, "User not found")

UnknownEmail == Err(401, "Invalid email or password")
WrongPassword == Err(401, "Invalid email or password")
LoginSuccess == Ok(200, "Login successful")

\* (a variant that signs the email as the subject)
loginEmailSubject(email, password, jti, t) ==
    LET user == UserFindOne(email)
        payload == [sub |-> OidToString(user.id), email |-> user.email]
        token == JwtSign([payload |-> payload], jwtConfig.privateKey,
                         getSignOptions(jti, <<"email", user.id>>), t)
    IN IF user = NoUser
       THEN [outcome |-> UnknownEmail, user |-> NoUser, token |-> NoCred]
       ELSE IF ~BcryptCompare(password, user.password)
       THEN [outcome |-> WrongPassword, user |-> NoUser, token |-> NoCred]
       ELSE [outcome |-> LoginSuccess, user |-> PublicUser(user), token |-> token]

\* what login answers at time t, with jti the UUID it draws
login(email, password, jti, t) ==
    LET user == UserFindOne(email)
        payload == [sub |-> OidToString(user.id), email |-> user.email]
        token == JwtSign([payload |-> payload], jwtConfig.privateKey,
                         getSignOptions(jti, OidToString(user.id)), t)
    IN IF user = NoUser
       THEN [outcome |-> UnknownEmail, user |-> NoUser, token |-> NoCred]
       ELSE IF ~BcryptCompare(password, user.password)
       THEN [outcome |-> WrongPassword, user |-> NoUser, token |-> NoCred]
       ELSE [outcome |-> LoginSuccess, user |-> PublicUser(user), token |-> token]

\* (a variant that keeps a session record for each credential it issues)
LoginWithSession(email, password) ==
    /\ LET jti == RandomUUID(nextJti)
           r == login(email, password, jti, now)
       IN /\ last' = [NoLast EXCEPT !.op = "login", !.email = email, !.password = password,
                                    !.outcome = r.outcome, !.user = r.user, !.token = r.token,
                                    !.calls = 1]
          /\ IF r.outcome = LoginSuccess
             THEN /\ nextJti <= MaxLogins
                  /\ issued' = issued \cup {[token |-> r.token, jti |-> jti,
                                             userId |-> r.user.id, email |-> r.user.email]}
                  /\ nextJti' = nextJti + 1
                  /\ tokens' = tokens \cup {[id |-> 0, userId |-> r.user.id, token |-> "",
                                             type |-> "refresh",
                                             expiresAt |-> now + JWT_EXPIRES_IN,
                                             createdAt |-> now]}
             ELSE UNCHANGED <<issued, nextJti, tokens>>
    /\ UNCHANGED <<users, now, transporter, notes, nextNid, nextUid, nextTid,
                   req, logouts, consumed>>

\* issued keeps each credential a client received, with the jti drawn for it
\* and the user it was given to
Login(email, password) ==
    /\ LET jti == RandomUUID(nextJti)
           r == login(email, password, jti, now)
       IN /\ last' = [NoLast EXCEPT !.op = "login", !.email = email, !.password = password,
                                    !.outcome = r.outcome, !.user = r.user, !.token = r.token,
                                    !.calls = 1]
          /\ IF r.outcome = LoginSuccess
             THEN /\ nextJti <= MaxLogins
                  /\ issued' = issued \cup {[token |-> r.token, jti |-> jti,
                                             userId |-> r.user.id, email |-> r.user.email]}
                  /\ nextJti' = nextJti + 1
             ELSE UNCHANGED <<issued, nextJti>>
    /\ UNCHANGED <<users, tokens, now, transporter, notes, nextNid, nextUid, nextTid,
                   req, logouts, consumed>>

\* ----------------------------------------------------------- authenticate
\* the result of the middleware: the error passed to next, or next() with
\* req.user, req.tokenJti and req.tokenExp set
\* (reads: the collections the middleware queried on the way)
AuthFail(error) ==
    [outcome |-> error, user |-> NoUser, jti |-> <<"", 0>>, exp |-> 0, reads |-> {}]

NextCalled == Ok(200, "next")
TokenRevoked == Err(401, "Token has been revoked")

MissingToken == Err(401, "Access token required")
TokenExpired == Err(401, "Token expired")
TokenInvalid == Err(401, "Invalid token")
StaleUser == Err(401, "User not found")

\* (a variant that only looks for something after the first seven characters)
HasBearerTokenAnyScheme(header) == header.token # NoCred

\* authHeader.startsWith('Bearer ') and a non-empty authHeader.substring(7)
HasBearerToken(header) == header.scheme = "Bearer " /\ header.token # NoCred

authenticate(header) ==
    IF ~HasBearerToken(header)
    THEN AuthFail(MissingToken)
    ELSE LET result == JwtVerify(header.token, jwtConfig.publicKey, getVerifyOptions, now)
             decoded == result.payload
         IN IF ~result.ok
            THEN IF result.name = "TokenExpiredError"
                 THEN AuthFail(TokenExpired)
                 ELSE IF result.name = "JsonWebTokenError"
                 THEN AuthFail(TokenInvalid)
                 ELSE AuthFail(Err(401, "Token verification failed"))
            ELSE IF RevokedTokens(decoded.jti) # {}
            THEN [AuthFail(TokenRevoked) EXCEPT !.reads = {"Token"}]
            ELSE IF ~IsOidString(decoded.sub)
            THEN [AuthFail(Err(400, "Invalid ID format")) EXCEPT !.reads = {"Token"}]
            ELSE LET user == UserFindById(CastObjectId(decoded.sub))
                 IN IF user = NoUser
                    THEN [AuthFail(StaleUser) EXCEPT !.reads = {"Token", "User"}]
                    ELSE [outcome |-> NextCalled, user |-> PublicUser(user),
                          jti |-> decoded.jti, exp |-> decoded.exp,
                          reads |-> {"Token", "User"}]

Bearer(token) == [scheme |-> "Bearer ", token |-> token]

\* the Authorization headers a client can present
Headers ==
    {NoHeader, [scheme |-> "Basic ", token |-> NoCred], [scheme |-> "Bearer ", token |-> NoCred]}
    \cup {Bearer(c.token) : c \in issued}

\* credentials a client can make out of one it holds, or receive from another
\* deployment of the signing key: claims edited under the old signature, a
\* signature made with another key, the HS256 header, and credentials signed
\* with the server's key for another issuer or audience
Tampered(token) ==
    [token EXCEPT !.payload.sub = OidToString(token.payload.sub[2] + 1)]
SignedWithOtherKey(token) ==
    [token EXCEPT !.signature.key = "attacker.pem"]
OtherAlgorithm(token) ==
    [token EXCEPT !.header.alg = "HS256"]
OtherIssuer(token) ==
    LET payload == [token.payload EXCEPT !.iss = "other-app"]
    IN [token EXCEPT !.payload = payload, !.signature.over = payload]
OtherAudience(token) ==
    LET payload == [token.payload EXCEPT !.aud = "other-users"]
    IN [token EXCEPT !.payload = payload, !.signature.over = payload]

Forged ==
    UNION {{Tampered(c.token), SignedWithOtherKey(c.token), OtherAlgorithm(c.token),
            OtherIssuer(c.token), OtherAudience(c.token)} : c \in issued}

\* every Authorization header of the model: the well-formed and malformed ones
\* with the client's own credential, and the forged credentials as Bearer
Presented ==
    Headers
    \cup {Bearer(t) : t \in Forged}
    \cup {[scheme |-> sch, token |-> c.token] : sch \in {"bearer ", "Basic ", "Bearer"},
                                                c \in issued}

\* a request to a route guarded by authenticate
Authenticate(header) ==
    /\ LET a == authenticate(header)
       IN last' = [NoLast EXCEPT !.op = "authenticate", !.header = header,
                                 !.outcome = a.outcome, !.user = a.user, !.calls = 1]
    /\ UNCHANGED <<users, tokens, now, transporter, notes, nextNid, issued, nextUid, nextTid, nextJti,
                   req, logouts, consumed>>

\* ---------------------------------------------------- optionalAuthenticate
\* without a header that starts with "Bearer " the middleware calls next();
\* otherwise it awaits authenticate(req, res, next), which catches its own
\* errors and passes them to next, so the catch of optionalAuthenticate is
\* not entered
optionalAuthenticate(header) ==
    IF header.scheme # "Bearer "
    THEN [AuthFail(NextCalled) EXCEPT !.reads = {}]
    ELSE authenticate(header)

\* a request to a route guarded by optionalAuthenticate
OptionalAuthenticate(header) ==
    /\ LET a == optionalAuthenticate(header)
       IN last' = [NoLast EXCEPT !.op = "optionalAuthenticate", !.header = header,
                                 !.outcome = a.outcome, !.user = a.user, !.calls = 1]
    /\ UNCHANGED <<users, tokens, now, transporter, notes, nextNid, issued, nextUid, nextTid, nextJti,
                   req, logouts, consumed>>

\* ----------------------------------------------------------------- logout
LogoutSuccess == Ok(200, "Logout successful")

\* the handler only answers; nothing is written to the Token collection.
\* logouts counts the successful calls per jti: none, one, two or more.
logout(a) ==
    /\ UNCHANGED tokens
    /\ logouts' = [logouts EXCEPT ![a.jti[2]] = IF @ < 2 THEN @ + 1 ELSE @]

\* router.post('/logout', authenticate, authController.logout)
Logout(header) ==
    /\ LET a == authenticate(header)
           l == [NoLast EXCEPT !.op = "logout", !.header = header, !.calls = 1]
       IN IF a.outcome # NextCalled
          THEN /\ last' = [l EXCEPT !.outcome = a.outcome]
               /\ UNCHANGED <<tokens, logouts>>
          ELSE /\ logout(a)
               /\ last' = [l EXCEPT !.outcome = LogoutSuccess, !.user = a.user]
    /\ UNCHANGED <<users, now, transporter, notes, nextNid, issued, nextUid, nextTid, nextJti,
                   req, consumed>>

\* ------------------------------------------------------------ environment
\* the wall clock, within a day and across days
Advance ==
    /\ (now % MINUTES_PER_DAY) + ClockStep <= MaxMinute
    /\ now' = now + ClockStep
    /\ last' = NoLast
    /\ UNCHANGED <<users, tokens, transporter, notes, nextNid, issued, nextUid, nextTid, nextJti,
                   req, logouts, consumed>>

AdvanceDay ==
    /\ now \div MINUTES_PER_DAY < MaxDays
    /\ now' = now + MINUTES_PER_DAY
    /\ last' = NoLast
    /\ UNCHANGED <<users, tokens, transporter, notes, nextNid, issued, nextUid, nextTid, nextJti,
                   req, logouts, consumed>>

\* a user document removed from the store from outside the application (no
\* handler deletes users); of interest are the accounts whose holder still
\* has a credential
AccountRemoved ==
    /\ \E u \in users : /\ \E c \in issued : c.userId = u.id
                        /\ users' = users \ {u}
    /\ last' = NoLast
    /\ UNCHANGED <<tokens, now, transporter, notes, nextNid, issued, nextUid, nextTid, nextJti,
                   req, logouts, consumed>>

\* the TTL monitor removes one expired Token document
Reap ==
    /\ \E k \in Expired(now) : tokens' = tokens \ {k}
    /\ last' = NoLast
    /\ UNCHANGED <<users, now, transporter, notes, nextNid, issued, nextUid, nextTid, nextJti,
                   req, logouts, consumed>>

\* ---------------------------------------------------------- forgetPassword
\* Math.ceil((existingToken.expiresAt - new Date()) / 1000 / 60)
TimeLeft(k, t) == k.expiresAt - t

ResetAlreadyPending(k, t) ==
    [status |-> 429, message |-> "Please wait minutes before requesting another OTP",
     detail |-> TimeLeft(k, t)]

EmailDeliveryFailed == Err(500, "Failed to send OTP email. Please try again later.")
OtpSent == Ok(200, "OTP sent to your email address. Valid for 10 minutes.")
UserNotFound == Err(404, "User not found")

\* User.findOne({ email }) and the lookup of an existing unexpired reset
\* token.  A user's _id never changes and users are never deleted, so the two
\* reads are taken in one step; of the user only _id is read afterwards.
ForgetStart(h, email) ==
    /\ Free(h)
    /\ LET user == UserFindOne(email)
           r == [NoReq EXCEPT !.op = "forgetPassword", !.pc = "save", !.email = email,
                              !.user = [NoUser EXCEPT !.id = user.id]]
           existing == UnexpiredResetTokens(user.id, now)
       IN IF user = NoUser
          THEN Begin(h, r, TRUE, UserNotFound)
          ELSE IF existing # {}
          THEN \E existingToken \in existing :
                  Begin(h, r, TRUE, ResetAlreadyPending(existingToken, now))
          ELSE Begin(h, r, FALSE, Pending)
    /\ UNCHANGED <<users, tokens, now, transporter, notes, nextNid, issued, nextUid, nextTid, nextJti,
                   logouts, consumed>>

\* new Token({ userId, token: otp, type: 'reset', expiresAt }) with timestamps
NewResetToken(id, userId, otp, t) ==
    [id |-> id, userId |-> userId, token |-> otp, type |-> "reset",
     expiresAt |-> t + OTP_VALIDITY, createdAt |-> t]

\* (a variant that starts the mail before the token is saved)
ForgetSaveDeferred(h, otp) ==
    /\ req[h].op = "forgetPassword" /\ req[h].pc = "save"
    /\ nextTid <= MaxTokens
    /\ nextTid' = nextTid + 1
    /\ Goto(h, [req[h] EXCEPT !.pc = "mail", !.otp = otp, !.tokenId = nextTid])
    /\ UNCHANGED <<users, tokens, now, transporter, notes, nextNid, issued, nextUid, nextJti, logouts,
                   consumed>>

\* the OTP, its expiry and token.save().  (consumed and replay: the codes
\* spent by a successful reset and not issued again since.)
ForgetSave(h, otp) ==
    /\ req[h].op = "forgetPassword" /\ req[h].pc = "save"
    /\ nextTid <= MaxTokens
    /\ tokens' = tokens \cup {NewResetToken(nextTid, req[h].user.id, otp, now)}
    /\ nextTid' = nextTid + 1
    /\ last' = NoLast
    /\ req' = [g \in Slots |->
                 IF g = h
                 THEN [req[h] EXCEPT !.pc = "mail", !.otp = otp, !.tokenId = nextTid]
                 ELSE IF req[g].user.id = req[h].user.id /\ req[g].otp = otp
                 THEN [req[g] EXCEPT !.replay = FALSE]
                 ELSE req[g]]
    /\ consumed' = consumed \ {<<req[h].user.id, otp>>}
    /\ UNCHANGED <<users, now, transporter, notes, nextNid, issued, nextUid, nextJti, logouts>>

\* (a variant of sendOTPEmail without the check of the transporter)
isEmailConfiguredUnchecked == TRUE

\* !!transporter: createTransporter returned a transport, not null
isEmailConfigured == transporter # "null"

\* sendOTPEmail resolves: the mail has been handed to the transporter and the
\* handler answers
ForgetMailSent(h) ==
    /\ req[h].op = "forgetPassword" /\ req[h].pc = "mail"
    /\ isEmailConfigured
    /\ req' = [req EXCEPT ![h] = NoReq]
    /\ last' = [Report(req[h], OtpSent) EXCEPT !.mail = sendOTPEmail(req[h].email, req[h].otp)]
    /\ UNCHANGED <<users, tokens, now, transporter, notes, nextNid, issued, nextUid, nextTid, nextJti,
                   logouts, consumed>>

\* a rejected store operation: the driver's error, passed to next by the
\* handler's catch and answered with its own message and 500
StoreError == Err(500, "store operation failed")

\* (a variant of the catch block that passes the 500 on before the cleanup)
ForgetCatchNextFirst(cleanupThrows) ==
    IF cleanupThrows THEN <<EmailDeliveryFailed, StoreError>> ELSE <<EmailDeliveryFailed>>

\* what the handler passes to next, in order, once sendOTPEmail has thrown:
\* the catch block awaits the cleanup and then returns next(500); a cleanup
\* that throws leaves the block for the handler's outer catch
ForgetCatch(cleanupThrows) ==
    IF cleanupThrows THEN <<StoreError>> ELSE <<EmailDeliveryFailed>>

\* sendOTPEmail throws (no transporter, or transporter.sendMail rejected): the
\* catch block runs Token.findByIdAndDelete(token._id), then passes the 500
ForgetMailFailed(h) ==
    /\ req[h].op = "forgetPassword" /\ req[h].pc = "mail"
    /\ tokens' = TokenDeleteById(req[h].tokenId)
    /\ LET passed == ForgetCatch(FALSE)
       IN /\ req' = [req EXCEPT ![h] = NoReq]
          /\ last' = [Report(req[h], passed[1]) EXCEPT !.calls = Len(passed)]
    /\ UNCHANGED <<users, now, transporter, notes, nextNid, issued, nextUid, nextTid, nextJti,
                   logouts, consumed>>

\* sendOTPEmail throws and Token.findByIdAndDelete rejects as well: the token
\* stays
ForgetCleanupFailed(h) ==
    /\ req[h].op = "forgetPassword" /\ req[h].pc = "mail"
    /\ LET passed == ForgetCatch(TRUE)
       IN /\ req' = [req EXCEPT ![h] = NoReq]
          /\ last' = [Report(req[h], passed[1]) EXCEPT !.calls = Len(passed)]
    /\ UNCHANGED <<users, tokens, now, transporter, notes, nextNid, issued, nextUid, nextTid,
                   nextJti, logouts, consumed>>

\* the store operation a handler is waiting for rejects (user.save,
\* token.save, Token.findOne, User.findByIdAndUpdate, Token.findByIdAndDelete):
\* nothing is written and the handler's catch passes the error to next
StoreFailure(h) ==
    /\ req[h].pc \in {"save", "findToken", "update", "delete"}
    /\ Done(h, StoreError)
    /\ UNCHANGED <<users, tokens, now, transporter, notes, nextNid, issued, nextUid, nextTid,
                   nextJti, logouts, consumed>>

\* ----------------------------------------------------------- resetPassword
InvalidOrExpiredOtp == Err(400, "Invalid or expired OTP")
PasswordUnchanged == Err(400, "New password must be different from current password")
PasswordTooShort == Err(400, "Password must be at least 6 characters long")
ResetSuccess == Ok(200, "Password reset successfully")

\* the length check and User.findOne({ email })
ResetStart(h, email, otp, newPassword) ==
    /\ Free(h)
    /\ LET user == UserFindOne(email)
           r == [NoReq EXCEPT !.op = "resetPassword", !.pc = "findToken", !.email = email,
                              !.otp = otp, !.password = newPassword, !.user = user,
                              !.replay = (<<user.id, otp>> \in consumed)]
       IN IF Len(newPassword) < MIN_PASSWORD
          THEN Begin(h, [r EXCEPT !.user = NoUser, !.replay = FALSE], TRUE, PasswordTooShort)
          ELSE Begin(h, r, user = NoUser, UserNotFound)
    /\ UNCHANGED <<users, tokens, now, transporter, notes, nextNid, issued, nextUid, nextTid, nextJti,
                   logouts, consumed>>

\* (a variant that drops the user's reset tokens after a wrong code)
ResetFindTokenBurning(h) ==
    /\ req[h].op = "resetPassword" /\ req[h].pc = "findToken"
    /\ LET found == MatchingResetTokens(req[h].user.id, req[h].otp, now)
       IN IF found = {}
          THEN /\ Done(h, InvalidOrExpiredOtp)
               /\ tokens' = {k \in tokens : k.userId # req[h].user.id}
          ELSE /\ \E tokenRecord \in found :
                    IF BcryptCompare(req[h].password, req[h].user.password)
                    THEN Done(h, PasswordUnchanged)
                    ELSE Goto(h, [req[h] EXCEPT !.pc = "update", !.tokenId = tokenRecord.id])
               /\ UNCHANGED tokens
    /\ UNCHANGED <<users, now, transporter, notes, nextNid, issued, nextUid, nextTid, nextJti,
                   logouts, consumed>>

\* the OTP lookup and the comparison with the current password
ResetFindToken(h) ==
    /\ req[h].op = "resetPassword" /\ req[h].pc = "findToken"
    /\ LET found == MatchingResetTokens(req[h].user.id, req[h].otp, now)
       IN IF found = {}
          THEN Done(h, InvalidOrExpiredOtp)
          ELSE \E tokenRecord \in found :
                 IF BcryptCompare(req[h].password, req[h].user.password)
                 THEN Done(h, PasswordUnchanged)
                 ELSE Goto(h, [req[h] EXCEPT !.pc = "update", !.tokenId = tokenRecord.id])
    /\ UNCHANGED <<users, tokens, now, transporter, notes, nextNid, issued, nextUid, nextTid, nextJti,
                   logouts, consumed>>

\* bcrypt.hash and User.findByIdAndUpdate(user._id, { password })
ResetUpdate(h) ==
    /\ req[h].op = "resetPassword" /\ req[h].pc = "update"
    /\ \E salt \in Salts :
         users' = UserFindByIdAndUpdate(req[h].user.id, BcryptHash(req[h].password, salt))
    /\ Goto(h, [req[h] EXCEPT !.pc = "delete"])
    /\ UNCHANGED <<tokens, now, transporter, notes, nextNid, issued, nextUid, nextTid, nextJti,
                   logouts, consumed>>

\* Token.findByIdAndDelete(tokenRecord._id) and the success response
ResetDelete(h) ==
    /\ req[h].op = "resetPassword" /\ req[h].pc = "delete"
    /\ tokens' = TokenDeleteById(req[h].tokenId)
    /\ consumed' = consumed \cup {<<req[h].user.id, req[h].otp>>}
    /\ Done(h, ResetSuccess)
    /\ UNCHANGED <<users, now, transporter, notes, nextNid, issued, nextUid, nextTid, nextJti,
                   logouts>>

\* -------------------------------------------------------------- validation
\* the i-th character of a string
CharAt(s, i) == SubSeq(s, i, i)

\* \d without the unicode flag: an ASCII digit
IsDigit(c) == c \in {"0", "1", "2", "3", "4", "5", "6", "7", "8", "9"}

\* (a variant anchored at the start only: /^\d{6}/)
MatchesOtpPatternPrefix(s) ==
    Len(s) >= 6 /\ \A i \in 1..6 : IsDigit(CharAt(s, i))

\* /^\d{6}$/.test(s)
MatchesOtpPattern(s) ==
    Len(s) = 6 /\ \A i \in 1..Len(s) : IsDigit(CharAt(s, i))

\* Joi.string().email(), as far as it decides the addresses of the model: a
\* local part, one @, and a domain of at least two segments
IsEmailAddress(s) ==
    \E i \in 2..Len(s) :
        /\ CharAt(s, i) = "@"
        /\ \A j \in 1..Len(s) : CharAt(s, j) = "@" => j = i
        /\ \E j \in (i + 2)..(Len(s) - 1) : CharAt(s, j) = "."

\* the messages of one Joi.string() key, in rule order (abortEarly: false);
\* an empty string fails the base type before any rule runs
EmailErrors(email) ==
    IF email = "" THEN <<"email is not allowed to be empty">>
    ELSE IF ~IsEmailAddress(email) THEN <<"Please provide a valid email address">>
    ELSE <<>>

\* (a variant without the length rule, with the pattern anchored at the start)
OtpErrorsPrefix(otp) ==
    IF otp = "" THEN <<"otp is not allowed to be empty">>
    ELSE IF ~MatchesOtpPatternPrefix(otp) THEN <<"OTP must contain only numbers">>
    ELSE <<>>

\* otp: Joi.string().length(6).pattern(/^\d{6}$/).required()
OtpErrors(otp) ==
    IF otp = "" THEN <<"otp is not allowed to be empty">>
    ELSE (IF Len(otp) # 6 THEN <<"OTP must be exactly 6 digits">> ELSE <<>>)
         \o (IF ~MatchesOtpPattern(otp) THEN <<"OTP must contain only numbers">> ELSE <<>>)

\* newPassword: Joi.string().min(6).required()
NewPasswordErrors(password) ==
    IF password = "" THEN <<"newPassword is not allowed to be empty">>
    ELSE IF Len(password) < MIN_PASSWORD
    THEN <<"Password must be at least 6 characters long">>
    ELSE <<>>

\* resetPasswordSchema.body.validate(req.body, { abortEarly: false }): the
\* messages in the order of the schema's keys
resetPasswordSchema(body) ==
    EmailErrors(body.email) \o OtpErrors(body.otp) \o NewPasswordErrors(body.newPassword)

\* validate(schema): the first message as a 400, or next()
validate(validationErrors) ==
    IF Len(validationErrors) > 0 THEN Err(400, validationErrors[1]) ELSE NextCalled

\* router.post('/reset-password', validate(resetPasswordSchema), resetPassword)
ResetRoute(h, email, otp, newPassword) ==
    LET body == [email |-> email, otp |-> otp, newPassword |-> newPassword]
        v == validate(resetPasswordSchema(body))
    IN IF v # NextCalled
       THEN /\ last' = Report([NoReq EXCEPT !.op = "resetPassword", !.email = email,
                                            !.otp = otp, !.password = newPassword], v)
            /\ UNCHANGED <<users, tokens, now, transporter, notes, nextNid, issued, nextUid, nextTid,
                           nextJti, req, logouts, consumed>>
       ELSE ResetStart(h, email, otp, newPassword)

\* --------------------------------------------------------- OTP generation
\* values of Math.random(), in millionths
RandomSamples == {0, 26063, 999999}

\* (a variant without the offset: Math.floor(Math.random() * 1000000))
OtpNumberNoOffset(r) == r

\* Math.floor(100000 + Math.random() * 900000) for Math.random() = r / 10^6
\* (900000 r / 10^6 = 9 r / 10)
OtpNumber(r) == 100000 + (9 * r) \div 10

\* Number.prototype.toString(): the decimal digits, no sign for n >= 0
RECURSIVE NumberToString(_)
NumberToString(n) ==
    LET digit == CharAt("0123456789", (n % 10) + 1)
    IN IF n < 10 THEN digit ELSE NumberToString(n \div 10) \o digit

\* the OTP forgetPassword draws
GenerateOtp(r) == NumberToString(OtpNumber(r))

\* ------------------------------------------------------------------ notes
\* (a variant of the filter without the owner)
NoteFilterById(n, id, ownerId) == n.id = id

\* the filter { _id: id, ownerId } of getNoteById, updateNote and deleteNote
NoteFilter(n, id, ownerId) == n.id = id /\ n.ownerId = ownerId

\* Note.findOne({ _id: id, ownerId })
NoteFindOne(id, ownerId) ==
    IF \E n \in notes : NoteFilter(n, id, ownerId)
    THEN CHOOSE n \in notes : NoteFilter(n, id, ownerId)
    ELSE NoNote

\* Note.findOneAndUpdate({ _id: id, ownerId }, { title, content }): the
\* collection afterwards
NoteFindOneAndUpdate(id, ownerId, title, content) ==
    {IF NoteFilter(n, id, ownerId) THEN [n EXCEPT !.title = title, !.content = content] ELSE n :
        n \in notes}

\* Note.findOneAndDelete({ _id: id, ownerId }): the collection afterwards
NoteFindOneAndDelete(id, ownerId) == {n \in notes : ~NoteFilter(n, id, ownerId)}

NoteNotFound == Err(404, "Note not found")
NoteCreated == Ok(201, "Note created successfully")
NoteRetrieved == Ok(200, "Note retrieved successfully")
NoteUpdated == Ok(200, "Note updated successfully")
NoteDeleted == Ok(200, "Note deleted successfully")

\* createNoteSchema.body.validate(req.body): Joi.object() allows no key
\* outside the schema (ownerId 0: the body has no ownerId key)
createNoteSchema(body) ==
    (IF body.title = "" THEN <<"title is not allowed to be empty">> ELSE <<>>)
    \o (IF body.content = "" THEN <<"content is not allowed to be empty">> ELSE <<>>)
    \o (IF body.ownerId # 0 THEN <<"ownerId is not allowed">> ELSE <<>>)

\* new Note({ title, content, ownerId }) with ownerId = req.user._id
NewNote(id, body, user) ==
    [id |-> id, title |-> body.title, content |-> body.content, ownerId |-> user.id]

\* what a notes route reports: the guard's user, the :id and the answer
NoteReport(op, header, a, id, outcome, note) ==
    [NoLast EXCEPT !.op = op, !.header = header, !.user = a.user, !.noteId = id,
                   !.outcome = outcome, !.note = note, !.calls = 1]

\* the notes routes: router.use(authenticate), then the route's validation,
\* then the handler, whose one store operation is the step's write.  The
\* guard's reads are taken in the same step: of the user only _id is used.
\* router.post('/', validate(createNoteSchema), createNote)
CreateNote(header, body) ==
    /\ LET a == authenticate(header)
           v == validate(createNoteSchema(body))
           note == NewNote(nextNid, body, a.user)
       IN IF a.outcome # NextCalled
          THEN /\ last' = NoteReport("createNote", header, a, 0, a.outcome, NoNote)
               /\ UNCHANGED <<notes, nextNid>>
          ELSE IF v # NextCalled
          THEN /\ last' = NoteReport("createNote", header, a, 0, v, NoNote)
               /\ UNCHANGED <<notes, nextNid>>
          ELSE /\ nextNid <= MaxNotes
               /\ notes' = notes \cup {note}
               /\ nextNid' = nextNid + 1
               /\ last' = NoteReport("createNote", header, a, note.id, NoteCreated, note)
    /\ UNCHANGED <<users, tokens, now, transporter, issued, nextUid, nextTid, nextJti,
                   req, logouts, consumed>>

\* router.get('/:id', validate(objectIdParamSchema), getNoteById)
GetNoteById(header, id) ==
    /\ LET a == authenticate(header)
           note == NoteFindOne(id, a.user.id)
       IN last' = IF a.outcome # NextCalled
                  THEN NoteReport("getNoteById", header, a, id, a.outcome, NoNote)
                  ELSE IF note = NoNote
                  THEN NoteReport("getNoteById", header, a, id, NoteNotFound, NoNote)
                  ELSE NoteReport("getNoteById", header, a, id, NoteRetrieved, note)
    /\ UNCHANGED <<users, tokens, now, transporter, notes, nextNid, issued, nextUid, nextTid,
                   nextJti, req, logouts, consumed>>

\* router.put('/:id', validate(updateNoteSchema), updateNote)
UpdateNote(header, id, title, content) ==
    /\ LET a == authenticate(header)
           after == NoteFindOneAndUpdate(id, a.user.id, title, content)
           note == NoteFindOne(id, a.user.id)
       IN IF a.outcome # NextCalled
          THEN /\ last' = NoteReport("updateNote", header, a, id, a.outcome, NoNote)
               /\ UNCHANGED notes
          ELSE IF note = NoNote
          THEN /\ last' = NoteReport("updateNote", header, a, id, NoteNotFound, NoNote)
               /\ UNCHANGED notes
          ELSE /\ notes' = after
               /\ last' = NoteReport("updateNote", header, a, id, NoteUpdated,
                                      [note EXCEPT !.title = title, !.content = content])
    /\ UNCHANGED <<users, tokens, now, transporter, nextNid, issued, nextUid, nextTid,
                   nextJti, req, logouts, consumed>>

\* router.delete('/:id', validate(objectIdParamSchema), deleteNote)
DeleteNote(header, id) ==
    /\ LET a == authenticate(header)
           note == NoteFindOne(id, a.user.id)
       IN IF a.outcome # NextCalled
          THEN /\ last' = NoteReport("deleteNote", header, a, id, a.outcome, NoNote)
               /\ UNCHANGED notes
          ELSE IF note = NoNote
          THEN /\ last' = NoteReport("deleteNote", header, a, id, NoteNotFound, NoNote)
               /\ UNCHANGED notes
          ELSE /\ notes' = NoteFindOneAndDelete(id, a.user.id)
               /\ last' = NoteReport("deleteNote", header, a, id, NoteDeleted, note)
    /\ UNCHANGED <<users, tokens, now, transporter, nextNid, issued, nextUid, nextTid,
                   nextJti, req, logouts, consumed>>

\* ------------------------------------------------------------ specification
Next ==
    \/ \E h \in Slots, e \in Emails, p \in Passwords : RegisterStart(h, e, p)
    \/ \E h \in Slots : RegisterSave(h)
    \/ \E e \in Emails, p \in Passwords : Login(e, p)
    \/ \E hd \in Headers : Authenticate(hd)
    \/ \E hd \in Headers : Logout(hd)
    \/ \E h \in Slots, e \in Emails : ForgetStart(h, e)
    \/ \E h \in Slots, o \in GeneratedOtps : ForgetSave(h, o)
    \/ \E h \in Slots : ForgetMailSent(h)
    \/ \E h \in Slots : ForgetMailFailed(h)
    \/ \E h \in Slots, e \in Emails, o \in Otps, p \in Passwords \cup ShortPasswords :
          ResetStart(h, e, o, p)
    \/ \E h \in Slots : ResetFindToken(h)
    \/ \E h \in Slots : ResetUpdate(h)
    \/ \E h \in Slots : ResetDelete(h)
    \/ Advance
    \/ AdvanceDay
    \/ Reap

Spec == Init /\ [][Next]_vars

\* ------------------------------------------------- the two halves of Spec
\* a user as register stores it
Registered(id, email, password, salt) ==
    [id |-> id, email |-> email, password |-> BcryptHash(password, salt), isVerified |-> FALSE]

\* the password-reset flow over a credential store that register has filled
InitReset ==
    /\ users = {Registered(1, "a@x.com", "Secret1", 1)}
    /\ tokens = {}
    /\ now = 0
    /\ transporter \in {"smtp", "null"}
    /\ issued = {}
    /\ nextUid = Cardinality(users) + 1
    /\ nextTid = 1
    /\ nextJti = 1
    /\ req = [h \in Slots |-> NoReq]
    /\ last = NoLast
    /\ logouts = [j \in 1..MaxLogins |-> 0]
    /\ consumed = {}
    /\ notes = {}
    /\ nextNid = 1

NextReset ==
    \/ \E h \in Slots, e \in Emails : ForgetStart(h, e)
    \/ \E h \in Slots, o \in GeneratedOtps : ForgetSave(h, o)
    \/ \E h \in Slots : ForgetMailSent(h)
    \/ \E h \in Slots : ForgetMailFailed(h)
    \/ \E h \in Slots, e \in Emails, o \in Otps, p \in Passwords \cup ShortPasswords :
          ResetStart(h, e, o, p)
    \/ \E h \in Slots : ResetFindToken(h)
    \/ \E h \in Slots : ResetUpdate(h)
    \/ \E h \in Slots : ResetDelete(h)
    \/ Advance
    \/ Reap

SpecReset == InitReset /\ [][NextReset]_vars

\* registration, login and bearer verification; one registration at a time
NextAuth ==
    \/ \E e \in Emails, p \in Passwords : RegisterStart(1, e, p)
    \/ RegisterSave(1)
    \/ \E e \in Emails, p \in Passwords : Login(e, p)
    \/ \E hd \in Headers : Authenticate(hd)
    \/ \E hd \in Headers : Logout(hd)
    \/ AdvanceDay

SpecAuth == Init /\ [][NextAuth]_vars

\* the account flows of two registered users, one request at a time: password
\* reset and login
InitAccount ==
    /\ users = {Registered(1, "a@x.com", "Secret1", 1), Registered(2, "b@x.com", "Secret1", 1)}
    /\ tokens = {}
    /\ now = 0
    /\ transporter \in {"smtp", "null"}
    /\ issued = {}
    /\ nextUid = Cardinality(users) + 1
    /\ nextTid = 1
    /\ nextJti = 1
    /\ req = [h \in Slots |-> NoReq]
    /\ last = NoLast
    /\ logouts = [j \in 1..MaxLogins |-> 0]
    /\ consumed = {}
    /\ notes = {}
    /\ nextNid = 1

\* password resets for both accounts, logins for the first one
NextAccount ==
    \/ \E e \in Emails : ForgetStart(1, e)
    \/ \E o \in GeneratedOtps : ForgetSave(1, o)
    \/ ForgetMailSent(1)
    \/ ForgetMailFailed(1)
    \/ \E e \in Emails, o \in Otps, p \in Passwords \cup ShortPasswords :
          ResetStart(1, e, o, p)
    \/ ResetFindToken(1)
    \/ ResetUpdate(1)
    \/ ResetDelete(1)
    \/ \E p \in Passwords : Login("a@x.com", p)
    \/ Advance
    \/ Reap

SpecAccount == InitAccount /\ [][NextAccount]_vars

\* registration alone, with overlapping requests
NextRegister ==
    \/ \E h \in Slots, e \in Emails, p \in Passwords : RegisterStart(h, e, p)
    \/ \E h \in Slots : RegisterSave(h)

SpecRegister == Init /\ [][NextRegister]_vars

\* bearer verification over every header of the model, with accounts that
\* can disappear; accounts register with one password
NextVerify ==
    \/ \E e \in Emails : RegisterStart(1, e, "Secret1")
    \/ RegisterSave(1)
    \/ \E e \in Emails, p \in Passwords : Login(e, p)
    \/ \E hd \in Presented : Authenticate(hd)
    \/ AccountRemoved
    \/ AdvanceDay

SpecVerify == Init /\ [][NextVerify]_vars

\* two registered users, the second with a note created in an earlier session
InitNotes ==
    /\ users = {Registered(1, "a@x.com", "Secret1", 1), Registered(2, "b@x.com", "Secret1", 1)}
    /\ tokens = {}
    /\ now = 0
    /\ transporter = "smtp"
    /\ issued = {}
    /\ nextUid = Cardinality(users) + 1
    /\ nextTid = 1
    /\ nextJti = 1
    /\ req = [h \in Slots |-> NoReq]
    /\ last = NoLast
    /\ logouts = [j \in 1..MaxLogins |-> 0]
    /\ consumed = {}
    /\ notes = {[id |-> 1, title |-> "t1", content |-> "c1", ownerId |-> 2]}
    /\ nextNid = Cardinality(notes) + 1

\* the bodies of POST /api/notes, with and without an ownerId key
NoteBodies == [title : Titles, content : Contents, ownerId : {0, 1, 2}]

NextNotes ==
    \/ \E e \in Emails : Login(e, "Secret1")
    \/ \E hd \in Headers, b \in NoteBodies : CreateNote(hd, b)
    \/ \E hd \in Headers, id \in 1..MaxNotes : GetNoteById(hd, id)
    \/ \E hd \in Headers, id \in 1..MaxNotes, t \in Titles, c \in Contents :
          UpdateNote(hd, id, t, c)
    \/ \E hd \in Headers, id \in 1..MaxNotes : DeleteNote(hd, id)

SpecNotes == InitNotes /\ [][NextNotes]_vars

\* one account's logins, password resets and authenticated requests within
\* the lifetime of its credentials, one request at a time
NextSession ==
    \/ \E p \in Passwords : Login("a@x.com", p)
    \/ \E hd \in Headers : Authenticate(hd)
    \/ ForgetStart(1, "a@x.com")
    \/ \E o \in GeneratedOtps : ForgetSave(1, o)
    \/ ForgetMailSent(1)
    \/ ForgetMailFailed(1)
    \/ \E o \in GeneratedOtps, p \in Passwords : ResetStart(1, "a@x.com", o, p)
    \/ ResetFindToken(1)
    \/ ResetUpdate(1)
    \/ ResetDelete(1)
    \/ Advance

SpecSession == InitReset /\ [][NextSession]_vars

\* every auth handler, with overlapping requests and store operations that
\* can fail
NextOutcome ==
    \/ \E h \in Slots : RegisterStart(h, "a@x.com", "Secret1")
    \/ \E h \in Slots : RegisterSave(h)
    \/ \E p \in Passwords : Login("a@x.com", p)
    \/ \E c \in issued : Authenticate(Bearer(c.token))
    \/ \E c \in issued : Logout(Bearer(c.token))
    \/ \E h \in Slots : ForgetStart(h, "a@x.com")
    \/ \E h \in Slots, o \in GeneratedOtps : ForgetSave(h, o)
    \/ \E h \in Slots : ForgetMailSent(h)
    \/ \E h \in Slots : ForgetMailFailed(h)
    \/ \E h \in Slots : ForgetCleanupFailed(h)
    \/ \E h \in Slots, o \in GeneratedOtps : ResetStart(h, "a@x.com", o, "Secret2")
    \/ \E h \in Slots : ResetFindToken(h)
    \/ \E h \in Slots : ResetUpdate(h)
    \/ \E h \in Slots : ResetDelete(h)
    \/ \E h \in Slots : StoreFailure(h)

SpecOutcome == Init /\ [][NextOutcome]_vars

\* optional bearer verification over every header of the model
NextOptional ==
    \/ \E e \in Emails : RegisterStart(1, e, "Secret1")
    \/ RegisterSave(1)
    \/ \E e \in Emails, p \in Passwords : Login(e, p)
    \/ \E hd \in Presented : OptionalAuthenticate(hd)
    \/ AdvanceDay

SpecOptional == Init /\ [][NextOptional]_vars

\* the reset-password route behind its validation, with codes drawn by
\* forgetPassword; one request at a time
ResetBodies ==
    [email : {"a@x.com", "a.x.com"},
     otp : {GenerateOtp(r) : r \in RandomSamples} \cup {"12a456", "123", "123456x", ""},
     newPassword : Passwords \cup ShortPasswords]

NextRoute ==
    \/ ForgetStart(1, "a@x.com")
    \/ \E r \in RandomSamples : ForgetSave(1, GenerateOtp(r))
    \/ ForgetMailSent(1)
    \/ ForgetMailFailed(1)
    \/ \E b \in ResetBodies : ResetRoute(1, b.email, b.otp, b.newPassword)
    \/ ResetFindToken(1)
    \/ ResetUpdate(1)
    \/ ResetDelete(1)

SpecRoute == InitReset /\ [][NextRoute]_vars

\* ================================================================= claims
\* ------------------------------------------------------------------ C1
\* C1: in every reachable state, concurrent forgetPassword handlers for the
\* same user included, at most one unexpired reset token exists per user.
C1_AtMostOnePending ==
    \A u \in users :
        Cardinality({k \in tokens : k.userId = u.id /\ k.type = "reset" /\ k.expiresAt > now}) <= 1

\* ------------------------------------------------------------------ C2
\* the user of this email has an unexpired reset token
HasPending(email) ==
    \E u \in users, k \in tokens :
        u.email = email /\ k.userId = u.id /\ k.type = "reset" /\ k.expiresAt > now

\* C2: a forgetPassword call for a user who has an unexpired reset token is
\* answered 429 with the minutes left, creates no token, leaves the Token
\* collection as it was and hands no mail to the transporter.
C2_PendingRejected ==
    [][\A h \in Slots, e \in Emails :
          (ForgetStart(h, e) /\ HasPending(e)) =>
              /\ last'.op = "forgetPassword" /\ last'.email = e
              /\ last'.outcome.status = 429 /\ last'.outcome.detail > 0
              /\ last'.tokenId = 0
              /\ last'.mail = NoMail
              /\ tokens' = tokens /\ nextTid' = nextTid
              /\ req' = req]_vars

C2_Witness ==
    /\ last.op = "forgetPassword" /\ last.outcome.status = 429
    /\ \E k \in tokens : k.userId = last.userId /\ k.type = "reset" /\ k.expiresAt > now

ResetLookup(h) ==
    req[h].op = "resetPassword" /\ req[h].pc = "findToken" /\ req'[h].pc # "findToken"

\* C4: once a resetPassword with an OTP has succeeded, every resetPassword
\* call for the same user and OTP that begins afterwards and reaches the OTP
\* lookup ends with "Invalid or expired OTP", unless a token with that code
\* has been issued since the success.
C4_ReplayRejected ==
    [][\A h \in Slots :
          (ResetLookup(h) /\ req[h].replay) => last'.outcome = InvalidOrExpiredOtp]_vars

\* ------------------------------------------------------------------ C5
\* the reset tokens of the handler's user that carry the OTP it was given
SameCode(h) ==
    {k \in tokens : k.userId = req[h].user.id /\ k.token = req[h].otp /\ k.type = "reset"}

\* C5: a reset OTP created at T is accepted by the lookup of resetPassword at
\* any time before T + 10 minutes, and when every token with the code is
\* older than 10 minutes (reaped or not) the call ends with "Invalid or
\* expired OTP".
C5_TenMinutes ==
    [][\A h \in Slots :
          ResetLookup(h) =>
              /\ (\E k \in SameCode(h) : now < k.createdAt + OTP_VALIDITY)
                    => last'.outcome # InvalidOrExpiredOtp
              /\ (\A k \in SameCode(h) : now > k.createdAt + OTP_VALIDITY)
                    => last'.outcome = InvalidOrExpiredOtp]_vars

\* an expired token that the TTL monitor has not removed is refused
C5_Witness ==
    /\ last.op = "resetPassword" /\ last.outcome = InvalidOrExpiredOtp
    /\ \E k \in tokens : /\ k.userId = last.userId /\ k.token = last.otp
                         /\ now > k.createdAt + OTP_VALIDITY

\* a token younger than 10 minutes has been accepted
C5_Accepted ==
    \E h \in Slots, k \in tokens :
        /\ req[h].op = "resetPassword" /\ req[h].pc = "update"
        /\ k.id = req[h].tokenId /\ now = k.createdAt + ClockStep

\* ------------------------------------------------------------------ C6
\* C6: once logout has succeeded for a credential, every later authenticate
\* of that credential, before its expiry, fails with "Token has been revoked".
C6_RevokedRejected ==
    \A c \in issued :
        (/\ last.op = "authenticate" /\ last.header = Bearer(c.token)
         /\ logouts[c.jti[2]] >= 1
         /\ now < c.token.payload.exp)
            => last.outcome = TokenRevoked

\* ------------------------------------------------------------------ C7
\* C7: after two successful logout calls for the same jti the Token
\* collection holds exactly one revocation record for it.
C7_OneRevocationRecord ==
    \A c \in issued :
        logouts[c.jti[2]] >= 2 => Cardinality(RevokedTokens(c.jti)) = 1

\* ------------------------------------------------------------------ C8
\* C8: a credential issued by login, presented unmodified before its expiry,
\* passes authenticate; the user attached to the request is the user that
\* logged in and the jti read back is the one drawn at signing.
C8_RoundTrip ==
    \A c \in issued :
        now < c.token.payload.exp =>
            LET a == authenticate(Bearer(c.token))
            IN /\ a.outcome = NextCalled
               /\ a.user.id = c.userId /\ a.user.email = c.email
               /\ a.jti = c.jti

C8_Witness ==
    /\ last.op = "authenticate" /\ last.outcome = NextCalled
    /\ \E c \in issued : last.header = Bearer(c.token) /\ last.user.id = c.userId

\* ------------------------------------------------------------------ C9
\* the user's stored hash is the hash of this password
IsPasswordOf(password, u) == u.password = BcryptHash(password, u.password.salt)

\* C9: for every user in the store and the password it is registered with,
\* login succeeds and the subject of the credential is the user's id.
C9_LoginSucceeds ==
    \A u \in users, p \in Passwords :
        IsPasswordOf(p, u) =>
            LET r == login(u.email, p, RandomUUID(nextJti), now)
            IN /\ r.outcome = LoginSuccess
               /\ r.token.payload.sub = OidToString(u.id)
               /\ r.user.id = u.id

C9_Witness ==
    /\ last.op = "login" /\ last.outcome = LoginSuccess
    /\ \E u \in users : /\ u.email = last.email /\ IsPasswordOf(last.password, u)
                        /\ last.token.payload.sub = OidToString(u.id)

\* ------------------------------------------------------------------ C10
\* C10: login with a registered email and a wrong password and login with an
\* unknown email give the same error: same status, same message.
C10_SameFailure ==
    \A u \in users, p \in Passwords, e \in Emails, q \in Passwords :
        (~IsPasswordOf(p, u) /\ (\A v \in users : v.email # e)) =>
            LET wrong == login(u.email, p, RandomUUID(nextJti), now)
                unknown == login(e, q, RandomUUID(nextJti), now)
            IN /\ wrong.outcome = unknown.outcome
               /\ wrong.outcome.status = 401
               /\ wrong.token = NoCred /\ unknown.token = NoCred

\* a wrong password has just been refused while another email is unknown
C10_Witness ==
    /\ last.op = "login" /\ last.outcome.status = 401
    /\ \E u \in users : u.email = last.email /\ ~IsPasswordOf(last.password, u)
    /\ \E e \in Emails : \A v \in users : v.email # e

\* ------------------------------------------------------------------ C11
\* right after a resetPassword has answered success, login with the new
\* password succeeds for that user and login with any other password fails
AfterResetOnlyNewPassword ==
    (last.op = "resetPassword" /\ last.outcome = ResetSuccess) =>
        \A p \in Passwords :
            LET r == login(last.email, p, RandomUUID(nextJti), now)
            IN IF p = last.password
               THEN r.outcome = LoginSuccess /\ r.user.id = last.userId
               ELSE r.outcome = WrongPassword /\ r.token = NoCred

\* a stored password hash changes only in the update step of a resetPassword
\* for that user, and becomes the hash of that call's newPassword
OnlyResetChangesPassword ==
    \A u \in users, v \in users' :
        (u.id = v.id /\ u.password # v.password) =>
            \E h \in Slots : /\ req[h].op = "resetPassword" /\ req[h].pc = "update"
                             /\ req[h].user.id = u.id
                             /\ IsPasswordOf(req[h].password, v)

C12_DuplicateRejected ==
    [][\A h \in Slots, e \in Emails, p \in Passwords :
          (RegisterStart(h, e, p) /\ \E u \in users : u.email = e) =>
              /\ last'.op = "register" /\ last'.email = e
              /\ last'.outcome = AlreadyExists /\ last'.outcome.status = 400
              /\ users' = users /\ nextUid' = nextUid
              /\ req' = req]_vars

C12_Witness ==
    /\ last.op = "register" /\ last.outcome = AlreadyExists
    /\ \E u \in users : u.email = last.email /\ ~IsPasswordOf(last.password, u)

\* ------------------------------------------------------------------ C13
\* C13: in every reachable state, overlapping register calls whose existence
\* checks both ran before either insert included, no two users share an email.
C13_EmailUnique ==
    \A u \in users, v \in users : u.email = v.email => u = v

\* the second of two overlapping registrations of one email has been refused
\* by the store at its insert
C13_Witness ==
    /\ last.op = "register" /\ last.outcome \in DuplicateKeyErrors
    /\ \E u \in users : u.email = last.email

\* ------------------------------------------------------------------ C14
\* the Token collection holds an unexpired reset token with the handler's OTP
\* that belongs to the user of the handler's email
HoldsValidOtp(h) ==
    \E u \in users, k \in tokens :
        /\ u.email = req[h].email /\ k.userId = u.id
        /\ k.type = "reset" /\ k.token = req[h].otp /\ k.expiresAt > now

\* C14: the OTP lookup of resetPassword lets the call go on only if the Token
\* collection holds an unexpired reset token with the supplied code owned by
\* the user of the supplied email; otherwise the call ends with "Invalid or
\* expired OTP" whatever the reason, and writes nothing.  A success answer
\* comes only from a call that passed the lookup.
C14_OnlyMatchingToken ==
    [][/\ \A h \in Slots :
            ResetLookup(h) =>
                /\ ~HoldsValidOtp(h) =>
                      /\ last'.outcome = InvalidOrExpiredOtp
                      /\ users' = users /\ tokens' = tokens
                /\ req'[h].pc = "update" => HoldsValidOtp(h)
       /\ last'.outcome = ResetSuccess =>
            \E h \in Slots : req[h].op = "resetPassword" /\ req[h].pc = "delete"
       /\ \A h \in Slots :
            (req'[h].op = "resetPassword" /\ req'[h].pc \in {"update", "delete"}) =>
                (req[h].op = "resetPassword" /\ req[h].pc \in {"findToken", "update", "delete"})]_vars

\* a user who has no token has been refused with another user's valid code
C14_Witness ==
    /\ last.op = "resetPassword" /\ last.outcome = InvalidOrExpiredOtp
    /\ \E k \in tokens : /\ k.token = last.otp /\ k.type = "reset" /\ k.expiresAt > now
                         /\ k.userId # last.userId
    /\ \A k \in tokens : k.userId # last.userId

\* ------------------------------------------------------------------ C15
\* the user document the handler of slot h read when the call was made holds
\* the hash of the new password the call was given
NewIsCurrent(h) == IsPasswordOf(req[h].password, req[h].user)

\* C15: a resetPassword call made with the user's current password as
\* newPassword, whose OTP lookup finds a valid token, ends with "New password
\* must be different from current password"; the step changes neither the
\* stored password hashes nor the Token collection, so the token stays
\* usable.  (First conjunct: the document a call compares against is the one
\* the store held for its email when the call was made.)
C15_SamePasswordRejected ==
    [][/\ \A h \in Slots :
            (req[h].pc = "idle" /\ req'[h].op = "resetPassword") =>
                (req'[h].user \in users /\ req'[h].user.email = req'[h].email)
       /\ \A h \in Slots :
            (/\ ResetLookup(h)
             /\ HoldsValidOtp(h)
             /\ NewIsCurrent(h))
              => /\ last'.outcome = PasswordUnchanged
                 /\ users' = users
                 /\ tokens' = tokens]_vars

\* the current password has just been refused as the new one, and the token
\* it was offered with is still there and unexpired
C15_Witness ==
    /\ last.op = "resetPassword" /\ last.outcome = PasswordUnchanged
    /\ \E u \in users : u.id = last.userId /\ IsPasswordOf(last.password, u)
    /\ \E k \in tokens : /\ k.userId = last.userId /\ k.token = last.otp
                         /\ k.type = "reset" /\ k.expiresAt > now

\* ------------------------------------------------------------------ C16
\* the credential carries the RS256 header and a signature made with the
\* server's private key over the claims it shows
CorrectlySigned(token) ==
    /\ token.header.alg = "RS256"
    /\ token.signature.key = jwtConfig.privateKey
    /\ token.signature.over = token.payload

\* no store was queried, no user attached, next() not called
StoppedBeforeLookups(a) ==
    a.reads = {} /\ a.user = NoUser /\ a.outcome # NextCalled

\* C16: for every Bearer credential presented, a correctly signed one past
\* its expiry is refused with "Token expired"; one with a wrong key, edited
\* claims or another algorithm, and an unexpired one for another issuer or
\* audience, is refused with "Invalid token"; in neither case is the Token
\* or the User collection read or a user attached.
C16_ExpiredOrInvalid ==
    \A hd \in Presented :
        HasBearerToken(hd) =>
            LET t == hd.token
                a == authenticate(hd)
            IN /\ (CorrectlySigned(t) /\ now >= t.payload.exp) =>
                      (a.outcome = TokenExpired /\ StoppedBeforeLookups(a))
               /\ (\/ ~CorrectlySigned(t)
                   \/ /\ now < t.payload.exp
                      /\ (t.payload.iss # "smart-note-app" \/ t.payload.aud # "smart-note-app-users"))
                     => (a.outcome = TokenInvalid /\ StoppedBeforeLookups(a))

\* a forged credential has just been refused as invalid
C16_Witness ==
    /\ last.op = "authenticate" /\ last.outcome = TokenInvalid
    /\ last.header.token \in Forged /\ ~CorrectlySigned(last.header.token)

\* a correctly signed credential has just been refused as expired
C16_Expired ==
    /\ last.op = "authenticate" /\ last.outcome = TokenExpired
    /\ \E c \in issued : last.header = Bearer(c.token) /\ now >= c.token.payload.exp

\* ------------------------------------------------------------------ C17
\* C17: a request whose Authorization header is absent, has another scheme
\* than "Bearer " or has nothing after the prefix is refused with 401 "Access
\* token required", with no collection read, no user attached and next() not
\* called, even when the header carries a credential that would verify.
C17_MissingToken ==
    \A hd \in Presented :
        (hd = NoHeader \/ hd.scheme # "Bearer " \/ hd.token = NoCred) =>
            LET a == authenticate(hd)
            IN /\ a.outcome = MissingToken /\ a.outcome.status = 401
               /\ StoppedBeforeLookups(a)

\* a valid credential sent under another scheme has just been refused
C17_Witness ==
    /\ last.op = "authenticate" /\ last.outcome = MissingToken
    /\ last.header.scheme # "Bearer "
    /\ authenticate(Bearer(last.header.token)).outcome = NextCalled

\* ------------------------------------------------------------------ C18
\* C18: a credential issued by login, unexpired and not revoked, whose user
\* is no longer in the User collection is refused with 401 "User not found";
\* no user is attached and next() is not called.
C18_StaleUser ==
    \A c \in issued :
        (/\ now < c.token.payload.exp
         /\ RevokedTokens(c.jti) = {}
         /\ \A u \in users : u.id # c.userId)
            => LET a == authenticate(Bearer(c.token))
               IN /\ a.outcome = StaleUser /\ a.outcome.status = 401
                  /\ a.user = NoUser

\* the credential of a removed account has just been refused while another
\* account exists
C18_Witness ==
    /\ last.op = "authenticate" /\ last.outcome = StaleUser
    /\ \E c \in issued : last.header = Bearer(c.token) /\ \A u \in users : u.id # c.userId
    /\ users # {}

\* ------------------------------------------------------------------ C19
\* the string is six characters, each one of 0..9
SixDigits(s) ==
    /\ Len(s) = 6
    /\ \A i \in 1..Len(s) : \E d \in 0..9 : CharAt(s, i) = NumberToString(d)

\* C19: every answer to a reset-password request whose otp is not six digits
\* is the 400 of validation, with a message of the schema; no resetPassword
\* handler is ever running with such an otp, so neither the User nor the
\* Token collection is looked up for it and nothing is written.
C19_BadOtpStopsAtValidation ==
    [][/\ \A h \in Slots :
            (req'[h].op = "resetPassword" /\ req'[h] # req[h]) => SixDigits(req'[h].otp)
       /\ (last'.op = "resetPassword" /\ ~SixDigits(last'.otp)) =>
            /\ last'.outcome.status = 400
            /\ last'.outcome.message \in
                  {"Please provide a valid email address", "OTP must be exactly 6 digits",
                   "OTP must contain only numbers", "otp is not allowed to be empty"}
            /\ last'.userId = 0
            /\ req' = req /\ users' = users /\ tokens' = tokens]_vars

\* "123456x" has just been refused for a user who holds the valid code 123456
C19_Witness ==
    /\ last.op = "resetPassword" /\ last.otp = "123456x" /\ last.email = "a@x.com"
    /\ last.outcome = Err(400, "OTP must be exactly 6 digits")
    /\ \E k \in tokens : k.token = "123456" /\ k.expiresAt > now

\* ------------------------------------------------------------------ C20
\* C20: every OTP forgetPassword has saved is the decimal form of an integer
\* in 100000..999999, six digits long, and passes the otp rules of the
\* reset-password schema.
C20_SixDigitOtp ==
    /\ \A r \in RandomSamples : OtpNumber(r) \in 100000..999999
    /\ \A k \in tokens :
          k.type = "reset" =>
              /\ \E r \in RandomSamples : k.token = GenerateOtp(r)
              /\ SixDigits(k.token)
              /\ CharAt(k.token, 1) # "0"
              /\ OtpErrors(k.token) = <<>>

\* the largest code has been issued, has passed the route's validation and
\* has been found by the handler
C20_Witness ==
    /\ \E k \in tokens : k.token = "999999" /\ k.token = GenerateOtp(999999)
    /\ \E h \in Slots : /\ req[h].op = "resetPassword" /\ req[h].pc = "update"
                        /\ req[h].otp = "999999"

\* ------------------------------------------------------------------ C21
\* C21: in forgetPassword the token is in the Token collection when the mail
\* dispatch starts, and the handler answers success only in the step in which
\* the dispatch completes, with the mail handed to a configured transporter;
\* while the dispatch is pending nothing is answered, and a failed dispatch is
\* answered with the 500.
C21_SaveThenMailThenAnswer ==
    [][/\ \A h \in Slots :
            (req'[h].op = "forgetPassword" /\ req'[h].pc = "mail" /\ req[h].pc # "mail") =>
                \E k \in tokens' : /\ k.id = req'[h].tokenId /\ k.userId = req'[h].user.id
                                    /\ k.token = req'[h].otp /\ k.type = "reset"
                                    /\ k \notin tokens
       /\ (last'.op = "forgetPassword" /\ last'.outcome = OtpSent) =>
            /\ isEmailConfigured
            /\ last'.mail = sendOTPEmail(last'.email, last'.otp)
            /\ \E h \in Slots : /\ req[h].op = "forgetPassword" /\ req[h].pc = "mail"
                                 /\ req[h].tokenId = last'.tokenId
                                 /\ req'[h] = NoReq
       /\ \A h \in Slots :
            (req[h].op = "forgetPassword" /\ req[h].pc = "mail" /\ req'[h] # req[h]) =>
                /\ req'[h] = NoReq
                /\ last'.outcome \in {OtpSent, EmailDeliveryFailed}
                /\ last'.outcome = EmailDeliveryFailed => last'.mail = NoMail]_vars

\* success has been answered for a token that was saved before the mail
C21_Witness ==
    /\ last.op = "forgetPassword" /\ last.outcome = OtpSent
    /\ last.mail = sendOTPEmail("a@x.com", "123456")
    /\ \E k \in tokens : k.id = last.tokenId /\ k.createdAt < now

C23_PendingOnlyWhileUnexpired ==
    [][/\ (last'.op = "forgetPassword" /\ last'.outcome.status = 429) => HasPending(last'.email)
       /\ \A e \in Emails :
            (ForgetStart(1, e) /\ ~HasPending(e) /\ \E u \in users : u.email = e) =>
                /\ req'[1].op = "forgetPassword" /\ req'[1].pc = "save"
                /\ last' = NoLast
       /\ \A o \in GeneratedOtps :
            ForgetSave(1, o) =>
                \E k \in tokens' \ tokens :
                    /\ k.userId = req[1].user.id /\ k.type = "reset" /\ k.token = o
                    /\ k.expiresAt = now + OTP_VALIDITY]_vars

\* within ten minutes of the first token, which a successful reset consumed,
\* a second token has been saved for the same user
C23_Witness ==
    /\ req[1].op = "forgetPassword" /\ req[1].pc = "mail" /\ req[1].user.id = 1
    /\ now < OTP_VALIDITY
    /\ \E u \in users : u.id = 1 /\ IsPasswordOf("Secret2", u)
    /\ \E k \in tokens : k.id = req[1].tokenId /\ k.id > 1 /\ k.userId = 1

\* after a failed mail
C23_AfterFailure ==
    /\ now = 0 /\ transporter = "smtp" /\ consumed = {}
    /\ \E k \in tokens : k.id > 1 /\ k.userId = 1
    /\ \A k \in tokens : k.userId = 1

\* after the expiry, with the expired token still in the collection
C23_AfterExpiry ==
    \E k \in tokens, x \in tokens :
        k.userId = 1 /\ x.userId = 1 /\ x.expiresAt <= k.createdAt

\* ------------------------------------------------------------------ C24
\* C24: a login call, whether it answers the credential or the 401, leaves
\* the Token collection and the User collection as they were: no document is
\* added, removed or changed.
C24_LoginWritesNothing ==
    [][last'.op = "login" =>
            /\ tokens' = tokens /\ nextTid' = nextTid
            /\ users' = users /\ nextUid' = nextUid]_vars

\* a credential has been issued while a reset token was in the collection
C24_Witness ==
    /\ last.op = "login" /\ last.outcome = LoginSuccess
    /\ \E c \in issued : c.token = last.token
    /\ \E k \in tokens : k.userId = last.user.id /\ k.expiresAt > now

\* a wrong password has been refused while a reset token was in the collection
C24_Refused ==
    /\ last.op = "login" /\ last.outcome = WrongPassword
    /\ tokens # {}

\* ------------------------------------------------------------------ C25
\* C25: optionalAuthenticate passes no error on: whatever the Authorization
\* header, the request continues with next(), with the user attached when
\* the credential is valid and without a user otherwise.
C25_OptionalNeverFails ==
    last.op = "optionalAuthenticate" =>
        /\ last.outcome = NextCalled
        /\ (last.user # NoUser) = (authenticate(last.header).outcome = NextCalled)

\* ------------------------------------------------------------------ C26
\* the notes a step changed, removed or added
Touched == (notes \ notes') \cup (notes' \ notes)

\* C26: getNoteById, updateNote and deleteNote asked for a note of another
\* user answer 404 "Note not found" and leave the collection as it was; a
\* step of a notes route changes, removes or adds only notes whose owner is
\* the authenticated user, whatever ownerId the body of createNote names; and
\* a note is answered only to its owner.
C26_OwnNotesOnly ==
    [][last'.op \in {"createNote", "getNoteById", "updateNote", "deleteNote"} =>
         /\ (/\ last'.op # "createNote"
             /\ last'.user # NoUser
             /\ \E n \in notes : n.id = last'.noteId /\ n.ownerId # last'.user.id)
               => (last'.outcome = NoteNotFound /\ notes' = notes)
         /\ \A n \in Touched : last'.user # NoUser /\ n.ownerId = last'.user.id
         /\ last'.outcome = NoteCreated =>
               \E n \in notes' \ notes : /\ n = last'.note /\ n.ownerId = last'.user.id
                                          /\ notes' = notes \cup {n}
         /\ last'.note # NoNote => last'.note.ownerId = last'.user.id]_vars

\* the first user's request for the second user's note has been answered 404
\* and the note is as it was
C26_Witness ==
    /\ last.op = "updateNote" /\ last.user.id = 1 /\ last.noteId = 1
    /\ last.outcome = NoteNotFound
    /\ [id |-> 1, title |-> "t1", content |-> "c1", ownerId |-> 2] \in notes

\* the owner's own update and delete act
C26_OwnerActs ==
    /\ last.op = "deleteNote" /\ last.outcome = NoteDeleted /\ last.user.id = 1
    /\ last.noteId = 2 /\ nextNid = 3
    /\ \A n \in notes : n.ownerId = 2

\* a body naming another owner creates nothing
C26_BodyOwnerRefused ==
    /\ last.op = "createNote" /\ last.user.id = 1 /\ last.outcome.status = 400
    /\ last.outcome.message = "ownerId is not allowed"

\* ------------------------------------------------------------------ C27
\* C27: of two overlapping resetPassword calls that found the same reset
\* token and carry different new passwords, at most one gets to write its
\* password: never have both done User.findByIdAndUpdate, with only the
\* deletion of the token and the success response left to each.
C27_OneChangePerOtp ==
    \A h \in Slots, g \in Slots :
        ~(/\ h # g
          /\ req[h].op = "resetPassword" /\ req[h].pc = "delete"
          /\ req[g].op = "resetPassword" /\ req[g].pc = "delete"
          /\ req[h].tokenId = req[g].tokenId
          /\ req[h].password # req[g].password)

\* ------------------------------------------------------------------ C28
\* the failures of resetPassword
ResetFailures == {PasswordTooShort, UserNotFound, InvalidOrExpiredOtp, PasswordUnchanged}

\* C28: the step in which a resetPassword call fails leaves the User and
\* Token collections as they were, and a call fails only at its start or at
\* the OTP lookup, before any of its writes: a call that has got to its
\* writes goes on to success.
C28_FailureWritesNothing ==
    [][/\ (last'.op = "resetPassword" /\ last'.outcome \in ResetFailures) =>
            /\ users' = users /\ tokens' = tokens
            /\ \A h \in Slots : req[h].op = "resetPassword" => req[h].pc = "findToken"
       /\ (last'.op = "resetPassword" /\ last'.outcome # Pending) =>
            last'.outcome \in ResetFailures \cup {ResetSuccess}
       /\ \A h \in Slots :
            (req[h].op = "resetPassword" /\ req[h].pc = "findToken" /\ req'[h] # req[h]) =>
                (users' = users /\ tokens' = tokens)]_vars

\* a wrong code has been refused and the pending token is still there
C28_Witness ==
    /\ last.op = "resetPassword" /\ last.outcome = InvalidOrExpiredOtp
    /\ last.otp = "654321"
    /\ \E k \in tokens : /\ k.userId = last.userId /\ k.token = "123456"
                         /\ k.type = "reset" /\ k.expiresAt > now

\* the current password has been refused as the new one, token still there
C28_SamePassword ==
    /\ last.op = "resetPassword" /\ last.outcome = PasswordUnchanged
    /\ \E k \in tokens : k.userId = last.userId /\ k.token = last.otp /\ k.expiresAt > now

\* ------------------------------------------------------------------ C29
\* C29: in every state, those after resetPassword wrote a new password and
\* after its success response among them, each credential issued so far
\* passes authenticate until its own expiry, with its user attached.
C29_ResetKeepsCredentials ==
    \A c \in issued :
        LET a == authenticate(Bearer(c.token))
        IN now < c.token.payload.exp =>
              (a.outcome = NextCalled /\ a.user.id = c.userId /\ a.jti = c.jti)

\* a credential issued before the reset token was created has passed
\* authenticate after resetPassword wrote the new password
C29_Witness ==
    /\ last.op = "authenticate" /\ last.outcome = NextCalled
    /\ req[1].op = "resetPassword" /\ req[1].pc = "delete"
    /\ \E u \in users : u.id = req[1].user.id /\ IsPasswordOf(req[1].password, u)
    /\ \E c \in issued, k \in tokens :
          /\ last.header = Bearer(c.token) /\ c.userId = req[1].user.id
          /\ k.id = req[1].tokenId /\ c.token.payload.iat < k.createdAt

\* ------------------------------------------------------------------ C30
\* the next step of the handler in slot h when no store operation fails
Continue(h) ==
    \/ RegisterSave(h)
    \/ \E o \in GeneratedOtps : ForgetSave(h, o)
    \/ ForgetMailSent(h)
    \/ ForgetMailFailed(h)
    \/ ResetFindToken(h)
    \/ ResetUpdate(h)
    \/ ResetDelete(h)

\* a handler in flight can go on (the token ids of the model permitting)
NeverStuck ==
    \A h \in Slots :
        (req[h].pc # "idle" /\ ~(req[h].op = "forgetPassword" /\ nextTid > MaxTokens)) =>
            ENABLED Continue(h)

\* a step ends at most one call and reports it with one answer; a step that
\* starts or continues a call reports nothing; whatever is reported was
\* answered or passed to next exactly once
OneOutcome ==
    LET moved == {h \in Slots : req'[h].pc # req[h].pc}
        ended == {h \in moved : req'[h] = NoReq}
    IN /\ Cardinality(moved) <= 1
       /\ \A h \in ended : /\ last'.op = req[h].op
                            /\ last'.email = req[h].email
                            /\ last'.outcome # Pending
       /\ \A h \in moved \ ended : last' = NoLast
       /\ IF last'.op = "none"
          THEN last' = NoLast
          ELSE /\ last'.calls = 1
               /\ last'.outcome # Pending
               /\ last'.outcome.status \in {200, 201, 400, 401, 404, 409, 429, 500}

\* C30: every call of register, login, logout, forgetPassword, resetPassword
\* and authenticate ends with exactly one answer: one response or one call
\* of next, never two and never none, also when a store operation rejects
\* and when the cleanup after a failed mail rejects.
C30_ExactlyOneOutcome ==
    []NeverStuck /\ [][OneOutcome]_vars

\* the mail failed, the cleanup rejected, and the one answer is the store's
\* error; the token is still in the collection
C30_Witness ==
    /\ last.op = "forgetPassword" /\ last.outcome = StoreError /\ last.calls = 1
    /\ \E k \in tokens : k.id = last.tokenId

====
